---- MODULE Spec2Model ----
(***************************************************************************)
(* The streaming chat client of frontend/src/components/Chat.jsx: the      *)
(* staging state (input, file), the transcript (messages), the status      *)
(* flag, and one process per call of handleSendMessage that got past its   *)
(* guard: the fetch, the read loop with its accumulation buffer, the fold  *)
(* of every decoded event into the last message, the catch block and the   *)
(* finally block.                                                          *)
(*                                                                         *)
(* Text on the wire is a sequence of units.  The six characters of the     *)
(* prefix "data: " and the newline are single characters; a JSON text is   *)
(* cut into its tokens ("{", a member, ",", "}"), because the decoder      *)
(* looks inside a payload only through String.split on two newlines,      *)
(* startsWith, substring(6) and JSON.parse.  The two emoji of the status   *)
(* and error prefixes are written in ASCII.                                *)
(***************************************************************************)
EXTENDS Naturals, Sequences, FiniteSets

VARIABLES
    messages,   \* Chat.jsx:8   useState([]), after the mount effect of line 17
    input,      \* Chat.jsx:9   the textarea's text, a sequence of characters
    file,       \* Chat.jsx:11  the staged File (its name), or NoFile
    fileName,   \* Chat.jsx:15
    status,     \* Chat.jsx:12  'idle' | 'thinking'
    sessionId,  \* Chat.jsx:10  the n-th value uuidv4() returned
    apiKey,     \* App: useState of apiKey, the apiKey prop of Chat; NoKey is null
    storage,    \* App: localStorage's item 'apiKey'; NoKey when there is none
    loads,      \* how many times the page was loaded
    mountStart, \* how many requests were sent before Chat was mounted
    pc,         \* per call of handleSendMessage: where it is suspended
    resp,       \* per call: the response fetch resolved with
    pos,        \* per call: how many units of the body reader.read() has delivered
    buffer,     \* per call: Chat.jsx:99 let buffer
    folded,     \* per call: the parsed data handed to the updater of line 126, in order
    agentIdx,   \* per call: the index in messages of the agent message it appended
    outcome,    \* per call: how handleSendMessage ended
    caught,     \* per call: the message of the error its catch block caught
    sent,       \* the FormData of every fetch of /v1/query-stream, in order
    nCalls,     \* how many calls of handleSendMessage got past the guard of line 47
    lastCall    \* what the latest call of handleSendMessage did at line 47, until the
                \* user touches the staging state again

vars == <<messages, input, file, fileName, status, sessionId, apiKey, storage, loads,
          mountStart, pc, resp, pos, buffer, folded, agentIdx, outcome, caught, sent,
          nCalls, lastCall>>

(***************************************************************************)
(* Bounds of the model.                                                    *)
(***************************************************************************)
MaxCalls == 2          \* Spec: calls of handleSendMessage that pass the guard
MaxFrames == 1         \* Spec: frames the backend writes, over all responses of a run
MaxInput == 1          \* Spec: characters the user types into the textarea
MaxStreamFrames == 2   \* StreamSpec: frames of the one response
MaxStagingCalls == 1   \* StagingSpec: calls of handleSendMessage that pass the guard
MaxAppCalls == 2       \* AppSpec: calls of handleSendMessage that pass the guard
MaxLoads == 2          \* AppSpec: loads of the page
MaxMounts == 3         \* AppSpec: mounts of Chat
MaxBufferFrames == 3   \* BufferSpec: pieces written to the one response body

Calls == 1..MaxCalls

(***************************************************************************)
(* JavaScript values, as far as the handler reads them.                    *)
(***************************************************************************)
Undefined == [t |-> "undef", v |-> <<>>]
True == [t |-> "true", v |-> <<>>]
False == [t |-> "false", v |-> <<>>]
Str(s) == [t |-> "str", v |-> s]
Arr(a) == [t |-> "arr", v |-> a]

\* `${x}` in a template literal
Template(x) ==
    CASE x.t = "str" -> x.v
      [] x.t = "undef" -> <<"undefined">>
      [] OTHER -> <<"[object Object]">>

\* x || y
OrElse(x, y) ==
    IF x.t = "undef" \/ (x.t = "str" /\ x.v = <<>>) THEN y ELSE x

Last(s) == s[Len(s)]
Front(s) == SubSeq(s, 1, Len(s) - 1)

RECURSIVE Flatten(_)
Flatten(ss) == IF ss = <<>> THEN <<>> ELSE Head(ss) \o Flatten(Tail(ss))

RECURSIVE SumLen(_, _)
SumLen(f, S) ==
    IF S = {} THEN 0
    ELSE LET i == CHOOSE j \in S : TRUE IN Len(f[i]) + SumLen(f, S \ {i})

(***************************************************************************)
(* String.prototype.trim, startsWith, split('\n\n').                       *)
(***************************************************************************)
Whitespace == {" ", "\n"}

RECURSIVE TrimStart(_)
TrimStart(s) ==
    IF s # <<>> /\ Head(s) \in Whitespace THEN TrimStart(Tail(s)) ELSE s

RECURSIVE TrimEnd(_)
TrimEnd(s) ==
    IF s # <<>> /\ Last(s) \in Whitespace THEN TrimEnd(Front(s)) ELSE s

Trim(s) == TrimEnd(TrimStart(s))

StartsWith(s, p) == Len(s) >= Len(p) /\ SubSeq(s, 1, Len(p)) = p

Delimiter == <<"\n", "\n">>

\* Where the leftmost delimiter of s starts, or 0.
FirstDelimiter(s) ==
    LET hits == {i \in 1..(Len(s) - 1) : SubSeq(s, i, i + 1) = Delimiter}
    IN IF hits = {} THEN 0 ELSE CHOOSE i \in hits : \A j \in hits : i <= j

RECURSIVE Split(_)
Split(s) ==
    LET i == FirstDelimiter(s)
    IN IF i = 0 THEN <<s>>
       ELSE <<SubSeq(s, 1, i - 1)>> \o Split(SubSeq(s, i + 2, Len(s)))

(***************************************************************************)
(* JSON.parse on a tokenised text: an object of members, or a SyntaxError. *)
(***************************************************************************)
Members ==
    [m \in {"\"type\":\"status\"", "\"type\":\"final_response\"", "\"type\":\"error\"",
            "\"type\":\"ping\"", "\"content\":\"x\"", "\"content\":\"y\"",
            "\"sources\":[{s1},{s2}]", "\"detail\":\"boom\""} |->
        CASE m = "\"type\":\"status\"" -> [key |-> "type", val |-> Str(<<"status">>)]
          [] m = "\"type\":\"final_response\"" ->
                 [key |-> "type", val |-> Str(<<"final_response">>)]
          [] m = "\"type\":\"error\"" -> [key |-> "type", val |-> Str(<<"error">>)]
          [] m = "\"type\":\"ping\"" -> [key |-> "type", val |-> Str(<<"ping">>)]
          [] m = "\"content\":\"x\"" -> [key |-> "content", val |-> Str(<<"x">>)]
          [] m = "\"content\":\"y\"" -> [key |-> "content", val |-> Str(<<"y">>)]
          [] m = "\"sources\":[{s1},{s2}]" ->
                 [key |-> "sources", val |-> Arr(<<"s1", "s2">>)]
          [] m = "\"detail\":\"boom\"" -> [key |-> "detail", val |-> Str(<<"boom">>)]]

\* The text between the braces is member ("," member)*, or nothing.
IsMemberList(s) ==
    \/ s = <<>>
    \/ /\ Len(s) % 2 = 1
       /\ \A i \in 1..Len(s) :
            IF i % 2 = 1 THEN s[i] \in DOMAIN Members ELSE s[i] = ","

\* (mutation: a parser that accepts an object whose closing brace is missing)
IsJSONLenient(s) ==
    /\ Len(s) >= 2
    /\ s[1] = "{"

IsJSON(s) ==
    /\ Len(s) >= 2
    /\ s[1] = "{"
    /\ s[Len(s)] = "}"
    /\ IsMemberList(SubSeq(s, 2, Len(s) - 1))

\* The property `key` of the parsed object: the last member of that name wins.
Property(s, key) ==
    LET at == {i \in 2..(Len(s) - 1) : s[i] \in DOMAIN Members /\ Members[s[i]].key = key}
    IN IF at = {} THEN Undefined
       ELSE Members[s[CHOOSE i \in at : \A j \in at : j <= i]].val

JSONparse(s) ==
    IF IsJSON(s)
    THEN [ok |-> TRUE,
          data |-> [type |-> Property(s, "type"), content |-> Property(s, "content"),
                    sources |-> Property(s, "sources"), detail |-> Property(s, "detail")]]
    ELSE [ok |-> FALSE,
          data |-> [type |-> Undefined, content |-> Undefined,
                    sources |-> Undefined, detail |-> Undefined]]


(***************************************************************************)
(* The wire: what the backend writes (README.md, API Reference).           *)
(***************************************************************************)
Prefix == <<"d", "a", "t", "a", ":", " ">>
PrefixLen == 6

Frame(payload) == Prefix \o payload \o Delimiter

StatusJSON == <<"{", "\"type\":\"status\"", ",", "\"content\":\"x\"", "}">>
FinalJSON == <<"{", "\"type\":\"final_response\"", ",", "\"content\":\"y\"", "}">>
FinalSourcesJSON ==
    <<"{", "\"type\":\"final_response\"", ",", "\"content\":\"y\"", ",",
      "\"sources\":[{s1},{s2}]", "}">>
ErrorJSON == <<"{", "\"type\":\"error\"", ",", "\"content\":\"x\"", "}">>
PingJSON == <<"{", "\"type\":\"ping\"", "}">>
BrokenJSON == <<"{", "\"type\":\"status\"", ",">>

\* Frames whose payload is one of the JSON objects of the protocol.
GoodFrames ==
    {Frame(StatusJSON), Frame(FinalJSON), Frame(FinalSourcesJSON), Frame(ErrorJSON),
     Frame(PingJSON)}
\* A frame whose payload JSON.parse rejects.
BadFrames == {Frame(BrokenJSON)}
\* A line whose field name is not the prefix's, six units long before its JSON text.
OtherFieldFrame == <<"D", "a", "t", "a", ":", " ">> \o StatusJSON \o Delimiter
\* A comment line of the transport, a data line with nothing after the prefix,
\* and a line of another field.
SilentFrames == {<<":", "k">> \o Delimiter, Frame(<<>>), OtherFieldFrame}

FrameSet == GoodFrames \cup BadFrames \cup SilentFrames

\* A status frame and a newline on its own: bodies with runs of one to five
\* newlines.
BufferFrames == {Frame(StatusJSON), <<"\n">>}

\* The three frames of the API reference.
ProtocolFrames == {Frame(StatusJSON), Frame(FinalSourcesJSON), Frame(ErrorJSON)}

RECURSIVE SeqsUpTo(_, _)
SeqsUpTo(S, n) ==
    IF n = 0 THEN {<<>>}
    ELSE LET shorter == SeqsUpTo(S, n - 1)
         IN shorter \cup {Append(q, x) : q \in {r \in shorter : Len(r) = n - 1}, x \in S}

Payload(frame) == SubSeq(frame, PrefixLen + 1, Len(frame) - Len(Delimiter))

\* The body of a non-2xx response.
DetailBody == <<"{", "\"detail\":\"boom\"", "}">>
EmptyObjectBody == <<"{", "}">>
HtmlBody == <<"<html>">>
ErrorBodies == {DetailBody, EmptyObjectBody, HtmlBody}
ErrorCodes == {"500"}

NoResponse == [ok |-> FALSE, code |-> "0", frames |-> <<>>, errBody |-> <<>>]

FramesWritten == SumLen([i \in Calls |-> resp[i].frames], Calls)

Responses(frameSet, maxFrames) ==
    {[ok |-> TRUE, code |-> "200", frames |-> fs, errBody |-> <<>>] :
        fs \in SeqsUpTo(frameSet, maxFrames - FramesWritten)}
    \cup {[ok |-> FALSE, code |-> c, frames |-> <<>>, errBody |-> b] :
            c \in ErrorCodes, b \in ErrorBodies}

Body(r) == Flatten(r.frames)

\* The message of the error a rejected fetch or read carries.
ThrownMessages == {Str(<<"network error">>), Str(<<>>)}

(***************************************************************************)
(* The read loop's body, lines 108-158.                                    *)
(***************************************************************************)
DecodeAnyPrefix(part) ==
    LET jsonStr == SubSeq(part, PrefixLen + 1, Len(part))
    IN IF jsonStr = <<>> THEN <<>>
       ELSE IF JSONparse(jsonStr).ok THEN <<JSONparse(jsonStr).data>> ELSE <<>>

\* Lines 113-125: the parsed data of a complete frame, if it gets to line 126.
Decode(part) ==
    IF ~StartsWith(part, Prefix) THEN <<>>
    ELSE LET jsonStr == SubSeq(part, PrefixLen + 1, Len(part))
         IN IF jsonStr = <<>> THEN <<>>
            ELSE IF JSONparse(jsonStr).ok THEN <<JSONparse(jsonStr).data>> ELSE <<>>

RECURSIVE DecodeAll(_)
DecodeAll(parts) ==
    IF parts = <<>> THEN <<>> ELSE Decode(Head(parts)) \o DecodeAll(Tail(parts))

\* Lines 108-110: the new buffer and the complete parts.
\* (mutation: the buffer is emptied after the split, the fragment is not retained)
BufferedDropped(buf, chunk) == <<>>
BufferedWhole(buf, chunk) == buf \o chunk
Buffered(buf, chunk) == Last(Split(buf \o chunk))
Complete(buf, chunk) == Front(Split(buf \o chunk))

IsType(data, name) == data.type = Str(<<name>>)
IsTerminal(data) == IsType(data, "final_response") \/ IsType(data, "error")

StatusPrefix == "[thinking] "
ErrorPrefix == "[x] Error: "
FailurePrefix == "Failed to get response: "

\* (mutation: final_response keeps the placeholder's sources)
FoldKeepingSources(prev, data) ==
    LET lastIndex == Len(prev)
    IN IF lastIndex = 0 THEN prev
       ELSE IF IsType(data, "status")
       THEN [prev EXCEPT ![lastIndex] =
                [@ EXCEPT !.text = Str(<<StatusPrefix>> \o Template(data.content)),
                          !.isFinal = False]]
       ELSE IF IsType(data, "final_response")
       THEN [prev EXCEPT ![lastIndex] = [@ EXCEPT !.text = data.content, !.isFinal = True]]
       ELSE IF IsType(data, "error")
       THEN [prev EXCEPT ![lastIndex] =
                [@ EXCEPT !.text = Str(<<ErrorPrefix>> \o Template(data.content)),
                          !.isFinal = True]]
       ELSE prev

FoldErrorOpen(prev, data) ==
    LET lastIndex == Len(prev)
    IN IF lastIndex = 0 THEN prev
       ELSE IF IsType(data, "status")
       THEN [prev EXCEPT ![lastIndex] =
                [@ EXCEPT !.text = Str(<<StatusPrefix>> \o Template(data.content)),
                          !.isFinal = False]]
       ELSE IF IsType(data, "final_response")
       THEN [prev EXCEPT ![lastIndex] =
                [@ EXCEPT !.text = data.content,
                          !.sources = IF data.sources.t = "undef" THEN Arr(<<>>)
                                      ELSE data.sources,
                          !.isFinal = True]]
       ELSE IF IsType(data, "error")
       THEN [prev EXCEPT ![lastIndex] =
                [@ EXCEPT !.text = Str(<<ErrorPrefix>> \o Template(data.content))]]
       ELSE prev

\* Lines 126-154: the updater handed to setMessages.
Fold(prev, data) ==
    LET lastIndex == Len(prev)
    IN IF lastIndex = 0 THEN prev
       ELSE IF IsType(data, "status")
       THEN [prev EXCEPT ![lastIndex] =
                [@ EXCEPT !.text = Str(<<StatusPrefix>> \o Template(data.content)),
                          !.isFinal = False]]
       ELSE IF IsType(data, "final_response")
       THEN [prev EXCEPT ![lastIndex] =
                [@ EXCEPT !.text = data.content,
                          !.sources = IF data.sources.t = "undef" THEN Arr(<<>>)
                                      ELSE data.sources,
                          !.isFinal = True]]
       ELSE IF IsType(data, "error")
       THEN [prev EXCEPT ![lastIndex] =
                [@ EXCEPT !.text = Str(<<ErrorPrefix>> \o Template(data.content)),
                          !.isFinal = True]]
       ELSE prev

RECURSIVE FoldAllReversed(_, _)
FoldAllReversed(prev, events) ==
    IF events = <<>> THEN prev ELSE Fold(FoldAllReversed(prev, Tail(events)), Head(events))

\* Lines 110-157: one setMessages call per event of the chunk, in order.
RECURSIVE FoldAll(_, _)
FoldAll(prev, events) ==
    IF events = <<>> THEN prev ELSE FoldAll(Fold(prev, Head(events)), Tail(events))

\* Lines 143 and 150: setStatus('idle') in the updater of a terminal event.
StatusAfter(st, events) ==
    IF \E k \in 1..Len(events) : IsTerminal(events[k]) THEN "idle" ELSE st

FailTransportOpen(prev, message) ==
    LET errorMessage ==
            OrElse(OrElse(Undefined, message), Str(<<"An unknown error occurred.">>))
    IN [k \in 1..Len(prev) |->
          IF k # Len(prev) THEN prev[k]
          ELSE [prev[k] EXCEPT !.text = Str(<<FailurePrefix>> \o Template(errorMessage))]]

FailTransportEvery(prev, message) ==
    LET errorMessage ==
            OrElse(OrElse(Undefined, message), Str(<<"An unknown error occurred.">>))
    IN [k \in 1..Len(prev) |->
          IF k # Len(prev) THEN [prev[k] EXCEPT !.isFinal = True]
          ELSE [prev[k] EXCEPT !.text = Str(<<FailurePrefix>> \o Template(errorMessage)),
                               !.isFinal = True]]

\* Lines 162-170: the updater of the catch block.
FailTransport(prev, message) ==
    LET errorMessage ==
            OrElse(OrElse(Undefined, message), Str(<<"An unknown error occurred.">>))
    IN [k \in 1..Len(prev) |->
          IF k # Len(prev) THEN prev[k]
          ELSE [prev[k] EXCEPT !.text = Str(<<FailurePrefix>> \o Template(errorMessage)),
                               !.isFinal = True]]

\* Lines 92-94: the message of the Error thrown for a non-2xx response.
HttpErrorMessage(r) ==
    LET errorData == IF JSONparse(r.errBody).ok THEN JSONparse(r.errBody).data
                     ELSE [type |-> Undefined, content |-> Undefined, sources |-> Undefined,
                           detail |-> Str(<<"Unknown server error">>)]
    IN OrElse(errorData.detail, Str(<<"HTTP error! status: ", r.code>>))

(***************************************************************************)
(* The state after the mount effect of lines 17-26.                        *)
(***************************************************************************)
NoFile == "null"
Files == {"a.pdf"}
InputChars == {" ", "q"}
Inputs == SeqsUpTo(InputChars, MaxInput)

Greeting ==
    [sender |-> "bot", text |-> Str(<<"Hello! I'm the Lyfegen Document Intelligence agent.">>),
     sources |-> Arr(<<>>), isFinal |-> True, file |-> Undefined]

Init ==
    /\ messages = <<Greeting>>
    /\ input = <<>>
    /\ file = NoFile
    /\ fileName = ""
    /\ status = "idle"
    /\ sessionId = 1
    /\ apiKey = "key-1"
    /\ storage = "key-1"
    /\ loads = 1
    /\ mountStart = 0
    /\ pc = [i \in Calls |-> "unused"]
    /\ resp = [i \in Calls |-> NoResponse]
    /\ pos = [i \in Calls |-> 0]
    /\ buffer = [i \in Calls |-> <<>>]
    /\ folded = [i \in Calls |-> <<>>]
    /\ agentIdx = [i \in Calls |-> 0]
    /\ outcome = [i \in Calls |-> "none"]
    /\ caught = [i \in Calls |-> Undefined]
    /\ sent = <<>>
    /\ nCalls = 0
    /\ lastCall = "none"

\* What Chat gets from outside: its props, the uuid of its mount, the page.
props == <<sessionId, apiKey, storage, loads, mountStart>>
staging == <<input, file, fileName>>
locals == <<resp, pos, buffer, folded, caught>>

(***************************************************************************)
(* The user's actions on the staging state.                                *)
(***************************************************************************)
\* Line 220: onChange of the textarea.
SetInput(s) ==
    /\ s # input
    /\ input' = s
    /\ lastCall' = "none"
    /\ UNCHANGED <<messages, file, fileName, status, props, pc, locals, agentIdx,
                   outcome, sent, nCalls>>

\* Lines 32-38.
HandleFileChange(f) ==
    /\ file' = f
    /\ fileName' = f
    /\ lastCall' = "none"
    /\ UNCHANGED <<messages, input, status, props, pc, locals, agentIdx, outcome,
                   sent, nCalls>>

\* Lines 40-44; the button is rendered when fileName is not empty (line 203).
RemoveFile ==
    /\ fileName # ""
    /\ file' = NoFile
    /\ fileName' = ""
    /\ lastCall' = "none"
    /\ UNCHANGED <<messages, input, status, props, pc, locals, agentIdx, outcome,
                   sent, nCalls>>

(***************************************************************************)
(* handleSendMessage, lines 46-82: up to the await of fetch.               *)
(***************************************************************************)
\* Line 47.
\* (mutation: the query is compared without trim)
RejectsUntrimmed(in, f) == in = <<>> /\ f = NoFile
RejectsBlankQuery(in, f) == Trim(in) = <<>>
\* Line 47.
Rejects(in, f) == Trim(in) = <<>> /\ f = NoFile

UserMessageWithoutFile(in, f) ==
    [sender |-> "user", text |-> Str(in), sources |-> Undefined, isFinal |-> Undefined,
     file |-> Undefined]

\* Line 49.
UserMessage(in, f) ==
    [sender |-> "user", text |-> Str(in), sources |-> Undefined, isFinal |-> Undefined,
     file |-> IF f = NoFile THEN Undefined ELSE Str(<<f>>)]

PlaceholderOfUser ==
    [sender |-> "user", text |-> Str(<<"Thinking...">>), sources |-> Arr(<<>>),
     isFinal |-> False, file |-> Undefined]

\* Line 52.
Placeholder ==
    [sender |-> "bot", text |-> Str(<<"Thinking...">>), sources |-> Arr(<<>>),
     isFinal |-> False, file |-> Undefined]

FormDataWithoutFile(sid, in, key, f) ==
    [session_id |-> sid, query |-> in, api_key |-> key, file |-> NoFile]

\* Lines 61-67.
FormData(sid, in, key, f) ==
    [session_id |-> sid, query |-> in, api_key |-> key, file |-> f]

HandleSendMessage(maxCalls) ==
    IF Rejects(input, file)
    THEN /\ lastCall' = "rejected"
         /\ UNCHANGED <<messages, staging, status, props, pc, locals, agentIdx, outcome,
                        sent, nCalls>>
    ELSE LET i == nCalls + 1
         IN /\ i <= maxCalls
            /\ lastCall' = "accepted"
            /\ nCalls' = i
            /\ messages' = messages \o <<UserMessage(input, file), Placeholder>>
            /\ status' = "thinking"
            /\ input' = <<>>
            /\ file' = NoFile
            /\ fileName' = ""
            /\ sent' = Append(sent, FormData(sessionId, input, apiKey, file))
            /\ pc' = [pc EXCEPT ![i] = "fetch"]
            /\ agentIdx' = [agentIdx EXCEPT ![i] = Len(messages) + 2]
            /\ UNCHANGED <<props, locals, outcome>>

\* Line 234: the submit button is disabled.
Disabled == status = "thinking" \/ (Trim(input) = <<>> /\ file = NoFile)

\* Line 212: the form is submitted with the button.
SubmitForm(maxCalls) == ~Disabled /\ HandleSendMessage(maxCalls)

\* Lines 224-229: Enter without Shift in the textarea.
PressEnter(maxCalls) == HandleSendMessage(maxCalls)

(***************************************************************************)
(* handleSendMessage, lines 82-175: after the await of fetch.              *)
(***************************************************************************)
\* Lines 160-175: catch and finally; the call returns.
Catch(i, message) ==
    /\ messages' = FailTransport(messages, message)
    /\ status' = "idle"
    /\ pc' = [pc EXCEPT ![i] = "done"]
    /\ outcome' = [outcome EXCEPT ![i] = "catch"]
    /\ caught' = [caught EXCEPT ![i] = message]
    /\ pos' = [pos EXCEPT ![i] = 0]
    /\ buffer' = [buffer EXCEPT ![i] = <<>>]

\* Line 82: fetch resolves; lines 90-99.
FetchResolves(i, frameSet, maxFrames) ==
    /\ pc[i] = "fetch"
    /\ \E r \in Responses(frameSet, maxFrames) :
         /\ resp' = [resp EXCEPT ![i] = r]
         /\ pc' = [pc EXCEPT ![i] = IF r.ok THEN "read" ELSE "json"]
    /\ UNCHANGED <<messages, staging, status, props, pos, buffer, folded, agentIdx,
                   outcome, caught, sent, nCalls, lastCall>>

\* Line 82: fetch rejects.
FetchRejects(i) ==
    /\ pc[i] = "fetch"
    /\ \E m \in ThrownMessages : Catch(i, m)
    /\ UNCHANGED <<staging, props, resp, folded, agentIdx, sent, nCalls, lastCall>>

\* Lines 92-94: response.json() settles and the Error is thrown.
JsonSettles(i) ==
    /\ pc[i] = "json"
    /\ Catch(i, HttpErrorMessage(resp[i]))
    /\ UNCHANGED <<staging, props, resp, folded, agentIdx, sent, nCalls, lastCall>>

\* Line 102: read resolves with the next n units of the body; lines 108-158.
ReadChunk(i) ==
    /\ pc[i] = "read"
    /\ \E n \in 1..(Len(Body(resp[i])) - pos[i]) :
         LET chunk == SubSeq(Body(resp[i]), pos[i] + 1, pos[i] + n)
             events == DecodeAll(Complete(buffer[i], chunk))
         IN /\ pos' = [pos EXCEPT ![i] = pos[i] + n]
            /\ buffer' = [buffer EXCEPT ![i] = Buffered(buffer[i], chunk)]
            /\ folded' = [folded EXCEPT ![i] = folded[i] \o events]
            /\ messages' = FoldAll(messages, events)
            /\ status' = StatusAfter(status, events)
    /\ UNCHANGED <<staging, props, pc, resp, agentIdx, outcome, caught, sent, nCalls,
                   lastCall>>

ReadDoneFlushing(i) ==
    /\ pc[i] = "read"
    /\ pc' = [pc EXCEPT ![i] = "done"]
    /\ outcome' = [outcome EXCEPT ![i] = "ended"]
    /\ status' = "idle"
    /\ pos' = [pos EXCEPT ![i] = 0]
    /\ buffer' = [buffer EXCEPT ![i] = <<>>]
    /\ folded' = [folded EXCEPT ![i] = folded[i] \o Decode(buffer[i])]
    /\ messages' = FoldAll(messages, Decode(buffer[i]))
    /\ UNCHANGED <<staging, props, resp, agentIdx, caught, sent, nCalls, lastCall>>

ReadDoneKeepingStatus(i) ==
    /\ pc[i] = "read"
    /\ pc' = [pc EXCEPT ![i] = "done"]
    /\ outcome' = [outcome EXCEPT ![i] = "ended"]
    /\ pos' = [pos EXCEPT ![i] = 0]
    /\ buffer' = [buffer EXCEPT ![i] = <<>>]
    /\ UNCHANGED <<messages, status, staging, props, resp, folded, agentIdx, caught, sent,
                   nCalls, lastCall>>

\* Lines 102-106 and 172-175: read resolves with done; the body may end anywhere.
ReadDone(i) ==
    /\ pc[i] = "read"
    /\ pc' = [pc EXCEPT ![i] = "done"]
    /\ outcome' = [outcome EXCEPT ![i] = "ended"]
    /\ status' = "idle"
    /\ pos' = [pos EXCEPT ![i] = 0]
    /\ buffer' = [buffer EXCEPT ![i] = <<>>]
    /\ UNCHANGED <<messages, staging, props, resp, folded, agentIdx, caught, sent,
                   nCalls, lastCall>>

\* Line 102: read rejects.
ReadThrows(i) ==
    /\ pc[i] = "read"
    /\ \E m \in ThrownMessages : Catch(i, m)
    /\ UNCHANGED <<staging, props, resp, folded, agentIdx, sent, nCalls, lastCall>>

\* What the network and the backend do to the calls in flight.
Network(frameSet, maxFrames) ==
    \/ \E i \in Calls : FetchResolves(i, frameSet, maxFrames)
    \/ \E i \in Calls : FetchRejects(i)
    \/ \E i \in Calls : JsonSettles(i)
    \/ \E i \in Calls : ReadChunk(i)
    \/ \E i \in Calls : ReadDone(i)
    \/ \E i \in Calls : ReadThrows(i)

\* The component under every user action, with the frames of the protocol.
Next ==
    \/ \E s \in Inputs : SetInput(s)
    \/ \E f \in Files : HandleFileChange(f)
    \/ RemoveFile
    \/ SubmitForm(MaxCalls)
    \/ PressEnter(MaxCalls)
    \/ Network(ProtocolFrames, MaxFrames)

Spec == Init /\ [][Next]_vars

\* One submission of the query "q", its response made of any frames of FrameSet.
StreamNext ==
    \/ SetInput(<<"q">>)
    \/ SubmitForm(1)
    \/ PressEnter(1)
    \/ Network(FrameSet, MaxStreamFrames)

StreamSpec == Init /\ [][StreamNext]_vars

\* One submission of the query "q", its body made of status frames and newlines.
BufferNext ==
    \/ SetInput(<<"q">>)
    \/ SubmitForm(1)
    \/ PressEnter(1)
    \/ Network(BufferFrames, MaxBufferFrames)

BufferSpec == Init /\ [][BufferNext]_vars

\* The transport lets no call wait for ever: a fetch that does not resolve
\* rejects, response.json() settles, a stream that does not fail ends.
Settles(i) == FetchRejects(i) \/ JsonSettles(i) \/ ReadDone(i)

\* StreamSpec with such a transport.
LiveSpec == StreamSpec /\ WF_vars(\E i \in Calls : Settles(i))

\* Spec with such a transport.
FairSpec == Spec /\ WF_vars(\E i \in Calls : Settles(i))

\* Every user action, the responses carrying no frame.
StagingNext ==
    \/ \E s \in Inputs : SetInput(s)
    \/ \E f \in Files : HandleFileChange(f)
    \/ RemoveFile
    \/ SubmitForm(MaxStagingCalls)
    \/ PressEnter(MaxStagingCalls)
    \/ \E i \in Calls : FetchResolves(i, {}, 0)
    \/ \E i \in Calls : FetchRejects(i)
    \/ \E i \in Calls : JsonSettles(i)
    \/ \E i \in Calls : ReadDone(i)
    \/ \E i \in Calls : ReadThrows(i)

StagingSpec == Init /\ [][StagingNext]_vars

(***************************************************************************)
(* App: the stored key, the two screens, the page.                         *)
(***************************************************************************)
NoKey == "<null>"                        \* null: no item stored, no key in the state
AuthKeys == {"", "key-1", "key-2"}       \* what the Auth form can hand to onLogin

\* JavaScript's truthiness of a key: null and '' are falsy.
Truthy(key) == key # NoKey /\ key # ""

\* {apiKey ? <Chat .../> : <Auth .../>}
Mounted == Truthy(apiKey)

\* localStorage.getItem('apiKey') || null
StoredKey == IF Truthy(storage) THEN storage ELSE NoKey

StaleUuid(last) == last
\* uuidv4(): a value no earlier call returned.
FreshUuid(last) == last + 1

\* Chat is mounted: its useState initialisers run, then the greeting effect.
ChatMount ==
    /\ sessionId < MaxMounts
    /\ sessionId' = FreshUuid(sessionId)
    /\ messages' = <<Greeting>>
    /\ input' = <<>>
    /\ file' = NoFile
    /\ fileName' = ""
    /\ status' = "idle"

\* No Chat is rendered: its state is gone.
ChatGone ==
    /\ messages' = <<>>
    /\ input' = <<>>
    /\ file' = NoFile
    /\ fileName' = ""
    /\ status' = "idle"
    /\ UNCHANGED sessionId

\* The calls of a Chat that is gone: their state updates reach no component.
Detach ==
    /\ pc' = [i \in Calls |-> IF pc[i] = "unused" THEN "unused" ELSE "unmounted"]
    /\ resp' = [i \in Calls |-> NoResponse]
    /\ pos' = [i \in Calls |-> 0]
    /\ buffer' = [i \in Calls |-> <<>>]
    /\ folded' = [i \in Calls |-> <<>>]
    /\ agentIdx' = [i \in Calls |-> 0]
    /\ outcome' = [i \in Calls |-> "none"]
    /\ caught' = [i \in Calls |-> Undefined]
    /\ lastCall' = "none"

\* Auth.jsx handleSubmit -> App handleLogin(key)
HandleLogin(key) ==
    /\ ~Mounted
    /\ storage' = key
    /\ apiKey' = key
    /\ IF Truthy(key) THEN ChatMount ELSE ChatGone
    /\ mountStart' = Len(sent)
    /\ Detach
    /\ UNCHANGED <<loads, sent, nCalls>>

HandleLogoutKeepingItem ==
    /\ Mounted
    /\ apiKey' = NoKey
    /\ ChatGone
    /\ Detach
    /\ UNCHANGED <<storage, loads, mountStart, sent, nCalls>>

\* The Logout button of Chat -> App handleLogout
HandleLogout ==
    /\ Mounted
    /\ storage' = NoKey
    /\ apiKey' = NoKey
    /\ ChatGone
    /\ Detach
    /\ UNCHANGED <<loads, mountStart, sent, nCalls>>

\* The page is loaded again: App's useState initialiser reads the stored key.
\* sent starts over: it holds the requests of this load of the page.
Reload ==
    /\ loads < MaxLoads
    /\ loads' = loads + 1
    /\ apiKey' = StoredKey
    /\ IF Truthy(StoredKey) THEN ChatMount ELSE ChatGone
    /\ Detach
    /\ sent' = <<>>
    /\ mountStart' = 0
    /\ UNCHANGED <<storage, nCalls>>

\* Logins, logouts and reloads around submissions whose responses carry no frame.
AppNext ==
    \/ \E key \in AuthKeys : HandleLogin(key)
    \/ HandleLogout
    \/ Reload
    \/ Mounted /\ SetInput(<<"q">>)
    \/ Mounted /\ SubmitForm(MaxAppCalls)
    \/ Mounted /\ PressEnter(MaxAppCalls)
    \/ \E i \in Calls : FetchResolves(i, {}, 0)
    \/ \E i \in Calls : FetchRejects(i)
    \/ \E i \in Calls : JsonSettles(i)
    \/ \E i \in Calls : ReadDone(i)
    \/ \E i \in Calls : ReadThrows(i)

AppSpec == Init /\ [][AppNext]_vars

TypeOK ==
    /\ status \in {"idle", "thinking"}
    /\ nCalls \in 0..MaxCalls
    /\ Len(messages) = 1 + 2 * nCalls


(***************************************************************************)
(* Notions the properties are stated with.                                 *)
(***************************************************************************)
\* The body text call i has received so far.
Received(i) == SubSeq(Body(resp[i]), 1, pos[i])
AllReceived(i) == pc[i] = "read" /\ pos[i] = Len(Body(resp[i]))

\* The events a text yields when it arrives as one chunk.
WholeEvents(text) == DecodeAll(Complete(<<>>, text))

\* One event per frame: the JSON object each frame carries.
FrameEvents(frames) == [k \in 1..Len(frames) |-> JSONparse(Payload(frames[k])).data]

WellFormed(frames) == \A k \in 1..Len(frames) : frames[k] \in GoodFrames

\* The agent message call i appended.
Own(i) == messages[agentIdx[i]]

NonFinalAgents ==
    {k \in 1..Len(messages) : messages[k].sender = "bot" /\ messages[k].isFinal = False}

\* The transcript right after the one submission of StreamSpec.
Submitted == <<Greeting, UserMessage(<<"q">>, NoFile), Placeholder>>

(***************************************************************************)
(* C1. Chunk-boundary invariance: however the body of a response is cut    *)
(* into chunks, the events folded so far are those the text received so    *)
(* far yields as one chunk; and once a body of well-formed frames (each    *)
(* "data: " + a JSON object of the protocol on one line + a blank line)    *)
(* has arrived, they are the frames' events, one per frame, in order.      *)
(***************************************************************************)
C1_ChunkBoundaryInvariance ==
    \A i \in Calls :
        pc[i] = "read" =>
            /\ folded[i] = WholeEvents(Received(i))
            /\ (AllReceived(i) /\ WellFormed(resp[i].frames)) =>
                   folded[i] = FrameEvents(resp[i].frames)

\* One frame is folded and the next chunk ended inside the prefix of the second.
C1_Witness ==
    /\ pc[1] = "read"
    /\ WellFormed(resp[1].frames)
    /\ Len(resp[1].frames) = 2
    /\ Len(folded[1]) = 1
    /\ buffer[1] = <<"d", "a", "t">>


(***************************************************************************)
(* C2. A frame whose payload is not valid JSON is dropped: once the whole  *)
(* body has arrived, the events folded and the transcript are those of the *)
(* same body without its frames of invalid JSON, and the call has not      *)
(* taken the catch path.                                                   *)
(***************************************************************************)
IsBad(frame) == frame \in BadFrames
IsNotBad(frame) == frame \notin BadFrames
WithoutBad(frames) == SelectSeq(frames, IsNotBad)

C2_BadFrameDropped ==
    \A i \in Calls :
        AllReceived(i) =>
            LET clean == WholeEvents(Flatten(WithoutBad(resp[i].frames)))
            IN /\ folded[i] = clean
               /\ messages = FoldAll(Submitted, clean)
               /\ outcome[i] = "none"

\* A frame of invalid JSON and then a status frame have arrived, in two chunks or more.
C2_Witness ==
    /\ AllReceived(1)
    /\ resp[1].frames = <<Frame(BrokenJSON), Frame(StatusJSON)>>
    /\ Last(messages).text = Str(<<StatusPrefix, "x">>)

(***************************************************************************)
(* C3. At most one submission is in flight: the transcript never holds two *)
(* agent messages that are not final.                                      *)
(***************************************************************************)
C3_AtMostOneInFlight == Cardinality(NonFinalAgents) <= 1

(***************************************************************************)
(* C4. Once handleSendMessage has finished for a submission, whichever way *)
(* it ended, the agent message of that submission is final.                *)
(***************************************************************************)
C4_FinishedIsFinal ==
    \A i \in Calls : pc[i] = "done" => Own(i).isFinal = True

(***************************************************************************)
(* C5. A finalized agent message is immutable: once the agent message of a *)
(* submission is final, no step changes its text, sources or isFinal.      *)
(***************************************************************************)
C5_FinalizedImmutable ==
    [][\A i \in Calls :
          (agentIdx[i] > 0 /\ Own(i).isFinal = True) =>
              messages'[agentIdx[i]] = messages[agentIdx[i]]]_vars

(***************************************************************************)
(* C6. Each accepted submission makes the transcript 2 messages longer,    *)
(* and while the agent message of a submission is not final the transcript *)
(* has the length it had right after that submission was accepted.         *)
(***************************************************************************)
C6_LengthFixedWhileNonFinal ==
    /\ Len(messages) = 1 + 2 * nCalls
    /\ \A i \in Calls :
          (agentIdx[i] > 0 /\ Own(i).isFinal = False) => Len(messages) = agentIdx[i]

(***************************************************************************)
(* C7. A call of handleSendMessage with an empty or whitespace-only query  *)
(* and no staged file changes nothing: not the transcript, the status      *)
(* flag, the input, the staged file, nor the requests sent.                *)
(***************************************************************************)
Blank(s) == \A k \in 1..Len(s) : s[k] \in Whitespace

\* This step is a call of handleSendMessage.
CallStep == lastCall' # lastCall /\ lastCall' # "none"

C7_BlankRejected ==
    [][(CallStep /\ Blank(input) /\ file = NoFile) =>
          UNCHANGED <<messages, status, input, file, fileName, sent, pc, nCalls>>]_vars

\* A call with a whitespace-only query and no file has returned at line 47.
C7_Witness ==
    /\ lastCall = "rejected"
    /\ input = <<" ">>
    /\ file = NoFile

(***************************************************************************)
(* C8. Folding a final_response event sets the text of the message that    *)
(* fold mutates, the last one, to the event's content, isFinal to true and *)
(* sources to the event's list, or to the empty list when the event has no *)
(* sources; its sender is unchanged.  Stated of every step whose last      *)
(* folded event is a final_response.                                       *)
(***************************************************************************)
C8_FinalResponseFold ==
    [][\A i \in Calls :
          (folded'[i] # folded[i] /\ IsType(Last(folded'[i]), "final_response")) =>
              LET e == Last(folded'[i])
                  m == Last(messages')
              IN /\ m.text = e.content
                 /\ m.isFinal = True
                 /\ m.sources = (IF e.sources = Undefined THEN Arr(<<>>) ELSE e.sources)
                 /\ m.sender = Last(messages).sender
                 /\ Len(messages') = Len(messages)]_vars

\* A final_response with two sources has been folded after a status event.
C8_Witness ==
    /\ pc[1] = "read"
    /\ Len(folded[1]) = 2
    /\ IsType(folded[1][1], "status")
    /\ Last(messages).sources = Arr(<<"s1", "s2">>)
    /\ Last(messages).isFinal = True

(***************************************************************************)
(* C9. After a non-2xx response no frame is folded and the agent message   *)
(* of the submission is final, its text holding the detail of the body, or *)
(* a generic message when the body is not JSON or has no detail.           *)
(***************************************************************************)
ExpectedFailure(r) ==
    IF r.errBody = DetailBody THEN "boom"
    ELSE IF r.errBody = HtmlBody THEN "Unknown server error"
    ELSE "HTTP error! status: "

Contains(text, piece) == \E k \in 1..Len(text.v) : text.v[k] = piece

C9_HttpErrorSurfaced ==
    \A i \in Calls :
        (pc[i] = "done" /\ resp[i] # NoResponse /\ ~resp[i].ok) =>
            /\ folded[i] = <<>>
            /\ Own(i).isFinal = True
            /\ Contains(Own(i).text, ExpectedFailure(resp[i]))

(***************************************************************************)
(* C10. After the catch block has run for a submission, the agent message  *)
(* of that submission is final.                                            *)
(***************************************************************************)
C10_FinalAfterCatch ==
    \A i \in Calls : outcome[i] = "catch" => Own(i).isFinal = True


C12_OneSessionIdPerLoad ==
    \A a, b \in 1..Len(sent) : sent[a].session_id = sent[b].session_id

(***************************************************************************)
(* C12  Amended: the requests sent since Chat was mounted all carry the    *)
(* session_id of this mount, and no request sent before it carries it.     *)
(***************************************************************************)
C12_SessionIdPerMount ==
    Mounted => \A k \in 1..Len(sent) :
                   (k > mountStart) <=> (sent[k].session_id = sessionId)

\* One request before a logout, one after the login that followed.
C12_Witness ==
    /\ Mounted
    /\ Len(sent) = 2
    /\ mountStart = 1
    /\ sent[2].session_id = sessionId
    /\ sent[1].session_id # sessionId


(***************************************************************************)
(* C13  Whatever the interleaving of two submissions, a step in which      *)
(* call i folds an event of its stream or catches its failure changes no   *)
(* message other than the agent message call i appended.                   *)
(***************************************************************************)
Acts(i) ==
    \/ folded'[i] # folded[i]
    \/ outcome'[i] = "catch" /\ outcome[i] # "catch"

C13_AppliedToOwnMessage ==
    [][\A i \in Calls : Acts(i) =>
          \A k \in 1..Len(messages) : k # agentIdx[i] => messages'[k] = messages[k]]_vars


(***************************************************************************)
(* C14  Events are folded in the order their frames arrive: whatever the   *)
(* chunking, the events folded so far are those of the received frames in  *)
(* frame order, and the agent message shows what the last frame with a     *)
(* foldable type produces: its text and its finality.                      *)
(***************************************************************************)
Foldable(data) == IsType(data, "status") \/ IsTerminal(data)

Foldables(events) == SelectSeq(events, Foldable)

\* The text and the finality the fold of one event leaves.
Shows(message, data) ==
    /\ message.text = IF IsType(data, "status")
                      THEN Str(<<StatusPrefix>> \o Template(data.content))
                      ELSE IF IsType(data, "error")
                      THEN Str(<<ErrorPrefix>> \o Template(data.content))
                      ELSE data.content
    /\ message.isFinal = IF IsType(data, "status") THEN False ELSE True

C14_FoldedInArrivalOrder ==
    \A i \in Calls : pc[i] = "read" =>
        LET events == WholeEvents(Received(i)) IN
            /\ folded[i] = events
            /\ Foldables(events) # <<>> => Shows(Own(i), Last(Foldables(events)))

\* A terminal frame came first and a status frame after it: the message
\* shows the status frame.
C14_Witness ==
    /\ AllReceived(1)
    /\ Len(folded[1]) = 2
    /\ IsTerminal(folded[1][1])
    /\ IsType(folded[1][2], "status")
    /\ Own(1).isFinal = False


(***************************************************************************)
(* C15  In a step that folds one event: a status event leaves the last     *)
(* message with the progress prefix and the content as text and isFinal    *)
(* false; an error event leaves it with the error prefix and the content   *)
(* as text and isFinal true; both keep its sender and its sources and      *)
(* every other message; an event of any other type but final_response      *)
(* leaves the whole transcript as it was.                                  *)
(***************************************************************************)
FoldsOne(i) == Len(folded'[i]) = Len(folded[i]) + 1

RestKept ==
    /\ Len(messages') = Len(messages)
    /\ \A k \in 1..(Len(messages) - 1) : messages'[k] = messages[k]
    /\ Last(messages').sender = Last(messages).sender
    /\ Last(messages').sources = Last(messages).sources
    /\ Last(messages').file = Last(messages).file

C15_StatusAndErrorFold ==
    [][\A i \in Calls : FoldsOne(i) =>
          LET data == Last(folded'[i]) IN
              /\ IsType(data, "status") =>
                    /\ Last(messages').text = Str(<<StatusPrefix>> \o data.content.v)
                    /\ Last(messages').isFinal = False
                    /\ RestKept
              /\ IsType(data, "error") =>
                    /\ Last(messages').text = Str(<<ErrorPrefix>> \o data.content.v)
                    /\ Last(messages').isFinal = True
                    /\ RestKept
              /\ ~Foldable(data) => messages' = messages]_vars

\* An error event was folded after a final_response that carried sources:
\* the message shows the error and still lists the sources.
C15_Witness ==
    /\ pc[1] = "read"
    /\ Len(folded[1]) = 2
    /\ IsType(folded[1][1], "final_response")
    /\ IsType(folded[1][2], "error")
    /\ Own(1).sources # Arr(<<>>)
    /\ Own(1).isFinal = True


(***************************************************************************)
(* C16  As stated: the step in which a call catches a failure leaves the   *)
(* last message final, with the failure prefix followed by the message of  *)
(* the caught failure as text, and the status flag 'idle'.                 *)
(***************************************************************************)
Catches(i) == outcome'[i] = "catch" /\ outcome[i] # "catch"

C16_FailureDescriptionShown ==
    [][\A i \in Calls : Catches(i) =>
          /\ Last(messages').isFinal = True
          /\ Last(messages').text = Str(<<FailurePrefix>> \o caught'[i].v)
          /\ status' = "idle"]_vars

\* What the catch block shows of a failure: its message, or the generic
\* text when the message is empty.
Description(message) ==
    IF message.v = <<>> THEN <<"An unknown error occurred.">> ELSE message.v

(***************************************************************************)
(* C16  Amended: the step in which a call catches a failure leaves the     *)
(* last message final, with the failure prefix followed by the message of  *)
(* the caught failure, or by the generic text when that message is empty,  *)
(* as text, and the status flag 'idle'; every other message is kept.       *)
(***************************************************************************)
C16_FailureSurfaced ==
    [][\A i \in Calls : Catches(i) =>
          /\ Last(messages').isFinal = True
          /\ Last(messages').text = Str(<<FailurePrefix>> \o Description(caught'[i]))
          /\ status' = "idle"
          /\ RestKept]_vars

\* A read of the body threw after a status event was folded.
C16_Witness ==
    /\ outcome[1] = "catch"
    /\ resp[1].ok
    /\ Len(folded[1]) = 1
    /\ IsType(folded[1][1], "status")
    /\ caught[1] = Str(<<"network error">>)
    /\ Own(1).text = Str(<<FailurePrefix, "network error">>)


(***************************************************************************)
(* C17  As stated: an accepted call appends to the transcript a user       *)
(* message and then an agent message whose text is empty.                  *)
(***************************************************************************)
Accepts == lastCall' = "accepted" /\ lastCall # "accepted"

C17_PlaceholderEmpty ==
    [][Accepts =>
          /\ Len(messages') = Len(messages) + 2
          /\ Last(messages').sender = "bot"
          /\ Last(messages').text = Str(<<>>)]_vars

(***************************************************************************)
(* C17  Amended: an accepted call keeps the transcript and appends to it,  *)
(* in this order, a user message whose text is the query and whose file is *)
(* the name of the staged file when there is one, and an agent message     *)
(* with isFinal false, the text 'Thinking...' and no sources.              *)
(***************************************************************************)
C17_AppendsUserThenAgent ==
    [][Accepts =>
          LET n == Len(messages)
              user == messages'[n + 1]
              agent == messages'[n + 2]
          IN /\ Len(messages') = n + 2
             /\ SubSeq(messages', 1, n) = messages
             /\ user.sender = "user"
             /\ user.text = Str(input)
             /\ user.file = IF file = NoFile THEN Undefined ELSE Str(<<file>>)
             /\ agent.sender = "bot"
             /\ agent.isFinal = False
             /\ agent.text = Str(<<"Thinking...">>)
             /\ agent.sources = Arr(<<>>)]_vars

\* A query was submitted with a file attached.
C17_Witness ==
    /\ lastCall = "accepted"
    /\ Len(messages) = 3
    /\ messages[2].text = Str(<<"q">>)
    /\ messages[2].file = Str(<<"a.pdf">>)
    /\ messages[3].isFinal = False


(***************************************************************************)
(* C18  A call made with a file staged and a query that is empty or only   *)
(* whitespace is accepted: the request carries the file and the query as   *)
(* typed, and the transcript grows by a user message with the file's name  *)
(* and by the agent placeholder.                                           *)
(***************************************************************************)
C18_FileAloneAccepted ==
    [][(CallStep /\ Blank(input) /\ file # NoFile) =>
          LET n == Len(messages) IN
              /\ lastCall' = "accepted"
              /\ Len(sent') = Len(sent) + 1
              /\ Last(sent').file = file
              /\ Last(sent').query = input
              /\ Len(messages') = n + 2
              /\ messages'[n + 1].sender = "user"
              /\ messages'[n + 1].text = Str(input)
              /\ messages'[n + 1].file = Str(<<file>>)
              /\ messages'[n + 2].sender = "bot"
              /\ messages'[n + 2].isFinal = False
              /\ status' = "thinking"]_vars

\* A file was submitted with a query of one space.
C18_Witness ==
    /\ lastCall = "accepted"
    /\ Len(sent) = 1
    /\ sent[1].query = <<" ">>
    /\ sent[1].file = "a.pdf"
    /\ messages[2].file = Str(<<"a.pdf">>)


(***************************************************************************)
(* C19  An accepted call leaves the input empty and no file staged; the    *)
(* request it sends is added after the earlier ones and carries the query  *)
(* and the file staged when the call was made: a file field exactly when a *)
(* file was staged then, whatever the earlier requests carried.            *)
(***************************************************************************)
C19_StagingConsumed ==
    [][Accepts =>
          /\ input' = <<>>
          /\ file' = NoFile
          /\ fileName' = ""
          /\ Len(sent') = Len(sent) + 1
          /\ SubSeq(sent', 1, Len(sent)) = sent
          /\ Last(sent').query = input
          /\ Last(sent').file = file
          /\ (Last(sent').file # NoFile) <=> (file # NoFile)]_vars

\* A file went out with the first request; the second request, made with
\* no file staged, carries none.
C19_Witness ==
    /\ lastCall = "accepted"
    /\ Len(sent) = 2
    /\ sent[1].file = "a.pdf"
    /\ sent[2].file = NoFile
    /\ input = <<>>
    /\ file = NoFile


(***************************************************************************)
(* C20  A complete frame that does not begin with the prefix, and a frame  *)
(* that is the prefix alone, yield no event: once the whole body has       *)
(* arrived the events folded, the transcript and the status flag are those *)
(* of the same body without these frames, and the call has not taken the   *)
(* catch path.                                                             *)
(***************************************************************************)
IsNotSilent(frame) == frame \notin SilentFrames
WithoutSilent(frames) == SelectSeq(frames, IsNotSilent)

C20_SilentFramesIgnored ==
    \A i \in Calls :
        AllReceived(i) =>
            LET heard == WholeEvents(Flatten(WithoutSilent(resp[i].frames)))
            IN /\ folded[i] = heard
               /\ messages = FoldAll(Submitted, heard)
               /\ status = StatusAfter("thinking", heard)
               /\ outcome[i] = "none"

\* A line of another field and then a final_response frame have arrived:
\* only the final_response was folded.
C20_Witness ==
    /\ AllReceived(1)
    /\ resp[1].frames = <<OtherFieldFrame, Frame(FinalJSON)>>
    /\ Len(folded[1]) = 1
    /\ Own(1).isFinal = True
    /\ status = "idle"


(***************************************************************************)
(* C21  The transcript is append-only but for its last message: no step    *)
(* (a call of handleSendMessage, a fold, a caught failure) shortens it or  *)
(* changes a message that is not the last one, and a step that appends     *)
(* keeps the message that was the last one; so a user message, which is    *)
(* never the last one, stays as it was appended.                           *)
(***************************************************************************)
C21_AppendOnlyButLast ==
    [][/\ Len(messages') >= Len(messages)
       /\ \A k \in 1..(Len(messages) - 1) : messages'[k] = messages[k]
       /\ Len(messages') > Len(messages) => messages'[Len(messages)] = Last(messages)
       /\ \A k \in 1..Len(messages) :
             messages[k].sender = "user" => messages'[k] = messages[k]]_vars

\* Two submissions were made and each ended in its catch block; the user
\* messages are as appended.
C21_Witness ==
    /\ Len(messages) = 5
    /\ outcome[1] = "catch"
    /\ outcome[2] = "catch"
    /\ messages[2] = UserMessage(<<"q">>, NoFile)
    /\ messages[4] = UserMessage(<<"q">>, NoFile)
    /\ messages[5].isFinal = True


(***************************************************************************)
(* C22  A frame is decoded only once its delimiter has arrived: while a    *)
(* call reads, it has folded no more events than delimiters have arrived,  *)
(* and the step in which the stream reports done folds nothing and leaves  *)
(* the transcript as it is, whatever text the buffer holds.                *)
(***************************************************************************)
Delimiters(text) == Len(Split(text)) - 1

StreamEnds(i) == pc[i] = "read" /\ pc'[i] = "done" /\ outcome'[i] = "ended"

C22_ResidueDiscarded ==
    [][\A i \in Calls :
          /\ pc'[i] = "read" =>
                Len(folded'[i]) <= Delimiters(SubSeq(Body(resp'[i]), 1, pos'[i]))
          /\ StreamEnds(i) =>
                /\ folded'[i] = folded[i]
                /\ messages' = messages]_vars

\* The stream ended after the whole text of a final_response frame but its
\* delimiter: nothing was folded and the agent message is not final.
C22_Witness ==
    /\ pc[1] = "done"
    /\ outcome[1] = "ended"
    /\ resp[1].frames = <<Frame(FinalJSON)>>
    /\ folded[1] = <<>>
    /\ Own(1).isFinal = False
    /\ Own(1).text = Str(<<"Thinking...">>)


(***************************************************************************)
(* C23  With a transport that ends or fails every stream, every call in    *)
(* flight comes to its end, whichever way; whenever no call is in flight   *)
(* the status flag is 'idle'; and the flag turns to 'thinking' only in a   *)
(* step that accepts a submission.                                         *)
(***************************************************************************)
InFlight(i) == pc[i] \in {"fetch", "json", "read"}

C23_StatusReturnsToIdle ==
    /\ \A i \in Calls : InFlight(i) ~> (pc[i] = "done")
    /\ []((\A i \in Calls : ~InFlight(i)) => status = "idle")
    /\ [][(status' = "thinking" /\ status # "thinking") => Accepts]_vars

\* The stream ended with no terminal frame folded: the message is not
\* final, the flag is 'idle'.
C23_Witness ==
    /\ pc[1] = "done"
    /\ outcome[1] = "ended"
    /\ Len(folded[1]) = 1
    /\ IsType(folded[1][1], "status")
    /\ Own(1).isFinal = False
    /\ status = "idle"


(***************************************************************************)
(* C24  The transcript is the greeting, final and from the agent, followed *)
(* by pairs of a user message and an agent message, one pair per request   *)
(* sent; its last message is from the agent; the greeting is as it was at  *)
(* mount and each user message is as it was appended.                      *)
(***************************************************************************)
C24_TranscriptShape ==
    /\ Len(messages) = 1 + 2 * Len(sent)
    /\ messages[1] = Greeting
    /\ Greeting.sender = "bot" /\ Greeting.isFinal = True
    /\ \A k \in 1..Len(sent) :
          /\ messages[2 * k] = UserMessage(sent[k].query, sent[k].file)
          /\ messages[2 * k].sender = "user"
          /\ messages[2 * k + 1].sender = "bot"
    /\ Last(messages).sender = "bot"

\* Two pairs, the first agent message left as appended while the events of
\* its stream were folded into the second.
C24_Witness ==
    /\ Len(messages) = 5
    /\ messages[3] = Placeholder
    /\ Len(folded[1]) = 1
    /\ IsType(folded[1][1], "final_response")
    /\ messages[5].isFinal = True
    /\ messages[4].sender = "user"


(***************************************************************************)
(* C25  After each chunk the buffer holds no delimiter: it is the end of   *)
(* the received text, from after the last delimiter the split has seen     *)
(* (the pairs of newlines taken from the left, none overlapping another),  *)
(* or the whole text when it has seen none; it is empty when the text ends *)
(* with such a delimiter, which is when the text ends with two newlines    *)
(* and holds no run of three.                                              *)
(***************************************************************************)
EndsWith(s, p) == Len(s) >= Len(p) /\ SubSeq(s, Len(s) - Len(p) + 1, Len(s)) = p

HasRunOfThree(s) == \E k \in 1..(Len(s) - 2) : SubSeq(s, k, k + 2) = <<"\n", "\n", "\n">>

\* s from its first unit to just before the unit at k holds delimiters end
\* to end and text free of them, the last delimiter ending at k - 1.
RECURSIVE CutAt(_, _)
CutAt(s, k) ==
    \/ k = 1
    \/ /\ k >= 3
       /\ SubSeq(s, k - 2, k - 1) = Delimiter
       /\ \E j \in 1..(k - 2) :
             /\ CutAt(s, j)
             /\ FirstDelimiter(SubSeq(s, j, k - 3)) = 0

==============================================================================
